---- MODULE Spec2Model ----
(***************************************************************************)
(* A model of the rs-es Client (src/lib.rs): the response classifier       *)
(* do_req, the HTTP helpers generated by es_op! / es_body_op!, version(),  *)
(* the operation-builder constructors and the exclusive borrow of the      *)
(* Client they hold.                                                       *)
(*                                                                         *)
(* Strings are sequences of atoms (a name or one punctuation character),   *)
(* so that concatenation is \o and "nothing else was added" is equality.   *)
(* A response body is a sequence of JSON tokens, parsed by from_reader.    *)
(***************************************************************************)
EXTENDS Integers, Sequences, FiniteSets, TLC

(***************************************************************************)
(* Bounds of the model.                                                    *)
(***************************************************************************)
MaxCalls == 2
MaxActions == 3

(***************************************************************************)
(* Option<T> is a set with at most one element.                            *)
(***************************************************************************)
None == {}
Some(x) == {x}
The(o) == CHOOSE x \in o : TRUE

(***************************************************************************)
(* JSON values (rustc_serialize::json::Json).  An object is a set of       *)
(* <<key, value>> pairs with distinct keys (a BTreeMap).                   *)
(***************************************************************************)
JNull == [tag |-> "Null", s |-> "", kv |-> {}, items |-> <<>>]
JStr(x) == [tag |-> "String", s |-> x, kv |-> {}, items |-> <<>>]
JNum(x) == [tag |-> "Number", s |-> x, kv |-> {}, items |-> <<>>]
JBool(x) == [tag |-> "Boolean", s |-> x, kv |-> {}, items |-> <<>>]
JObj(pairs) == [tag |-> "Object", s |-> "", kv |-> pairs, items |-> <<>>]
JArr(elems) == [tag |-> "Array", s |-> "", kv |-> {}, items |-> elems]

(***************************************************************************)
(* JSON tokens of a body.                                                  *)
(***************************************************************************)
LB == [k |-> "{", v |-> ""]
RB == [k |-> "}", v |-> ""]
LK == [k |-> "[", v |-> ""]
RK == [k |-> "]", v |-> ""]
COLON == [k |-> ":", v |-> ""]
COMMA == [k |-> ",", v |-> ""]
S(x) == [k |-> "str", v |-> x]
N(x) == [k |-> "num", v |-> x]
B(x) == [k |-> "bool", v |-> x]
NUL == [k |-> "null", v |-> ""]
HTML == [k |-> "text", v |-> "<html>"]

(***************************************************************************)
(* Json::from_reader: a value, then end of input.  An empty input is       *)
(* EOFWhileParsingValue, anything after the value TrailingCharacters.      *)
(***************************************************************************)
PErr == [ok |-> FALSE, json |-> JNull, next |-> 0]
POk(j, n) == [ok |-> TRUE, json |-> j, next |-> n]

RECURSIVE parse_value(_, _)
RECURSIVE parse_object(_, _, _)
RECURSIVE parse_array(_, _, _)

parse_object(toks, i, kv) ==
    IF i + 1 > Len(toks) THEN PErr
    ELSE IF toks[i].k # "str" \/ toks[i + 1].k # ":" THEN PErr
    ELSE LET r == parse_value(toks, i + 2)
             kv2 == {p \in kv : p[1] # toks[i].v} \cup {<<toks[i].v, r.json>>}
         IN  IF ~r.ok \/ r.next > Len(toks) THEN PErr
             ELSE IF toks[r.next].k = "}" THEN POk(JObj(kv2), r.next + 1)
             ELSE IF toks[r.next].k = "," THEN parse_object(toks, r.next + 1, kv2)
             ELSE PErr

parse_array(toks, i, elems) ==
    LET r == parse_value(toks, i)
    IN  IF ~r.ok \/ r.next > Len(toks) THEN PErr
        ELSE IF toks[r.next].k = "]"
             THEN POk(JArr(Append(elems, r.json)), r.next + 1)
        ELSE IF toks[r.next].k = ","
             THEN parse_array(toks, r.next + 1, Append(elems, r.json))
        ELSE PErr

parse_value(toks, i) ==
    IF i > Len(toks) THEN PErr
    ELSE LET t == toks[i]
         IN  CASE t.k = "str" -> POk(JStr(t.v), i + 1)
               [] t.k = "num" -> POk(JNum(t.v), i + 1)
               [] t.k = "bool" -> POk(JBool(t.v), i + 1)
               [] t.k = "null" -> POk(JNull, i + 1)
               [] t.k = "{" ->
                    IF i + 1 <= Len(toks) /\ toks[i + 1].k = "}"
                    THEN POk(JObj({}), i + 2)
                    ELSE parse_object(toks, i + 1, {})
               [] t.k = "[" ->
                    IF i + 1 <= Len(toks) /\ toks[i + 1].k = "]"
                    THEN POk(JArr(<<>>), i + 2)
                    ELSE parse_array(toks, i + 1, <<>>)
               [] OTHER -> PErr

from_reader(body) ==
    LET r == parse_value(body, 1)
    IN  IF r.ok /\ r.next = Len(body) + 1 THEN r ELSE PErr

(***************************************************************************)
(* Json::find_path and Json::as_string.                                    *)
(***************************************************************************)
find(json, key) ==
    IF json.tag = "Object"
    THEN {p[2] : p \in {q \in json.kv : q[1] = key}}
    ELSE None

RECURSIVE find_path(_, _)
find_path(json, keys) ==
    IF keys = <<>> THEN Some(json)
    ELSE LET t == find(json, Head(keys))
         IN  IF t = None THEN None ELSE find_path(The(t), Tail(keys))

as_string(json) == IF json.tag = "String" THEN Some(json.s) ELSE None

(***************************************************************************)
(* Strings.  format!("{}", port) writes a u32 in decimal.                  *)
(***************************************************************************)
DigitChars == <<"0", "1", "2", "3", "4", "5", "6", "7", "8", "9">>

RECURSIVE ToDigits(_)
ToDigits(n) ==
    IF n < 10 THEN <<DigitChars[n + 1]>>
    ELSE Append(ToDigits(n \div 10), DigitChars[(n % 10) + 1])

(***************************************************************************)
(* EsError and the results of the Client's HTTP helpers:                   *)
(* Result<(StatusCode, Option<Json>), EsError>.                            *)
(***************************************************************************)
NoError == [kind |-> "", status |-> 0, msg |-> "", json |-> None]
HttpError == [kind |-> "HttpError", status |-> 0, msg |-> "", json |-> None]
JsonError == [kind |-> "JsonError", status |-> 0, msg |-> "", json |-> None]
EncoderError == [kind |-> "EncoderError", status |-> 0, msg |-> "", json |-> None]
EsServerError(resp) ==
    [kind |-> "EsServerError", status |-> resp.status, msg |-> "", json |-> None]
EsError(text, j) == [kind |-> "EsError", status |-> 0, msg |-> text, json |-> Some(j)]

Ok(status, json) == [ok |-> TRUE, status |-> status, json |-> json, err |-> NoError]
Err(e) == [ok |-> FALSE, status |-> 0, json |-> None, err |-> e]

StatusOk == 200
StatusCreated == 201
StatusNotFound == 404

(***************************************************************************)
(* Faulty variants of do_req, against which the properties are tested:     *)
(* without the Created arm, without the NotFound arm, and returning no     *)
(* JSON value for a response without a body.                               *)
(***************************************************************************)
do_req_no_created(resp) ==
    IF resp.status \in {StatusOk, StatusNotFound}
    THEN LET p == from_reader(resp.body)
         IN  IF p.ok THEN Ok(resp.status, Some(p.json)) ELSE Err(JsonError)
    ELSE Err(EsServerError(resp))

do_req_no_not_found(resp) ==
    IF resp.status \in {StatusOk, StatusCreated}
    THEN LET p == from_reader(resp.body)
         IN  IF p.ok THEN Ok(resp.status, Some(p.json)) ELSE Err(JsonError)
    ELSE Err(EsServerError(resp))

do_req_optional_body(resp) ==
    IF resp.status \in {StatusOk, StatusCreated, StatusNotFound}
    THEN IF resp.body = <<>> THEN Ok(resp.status, None)
         ELSE LET p == from_reader(resp.body)
              IN  IF p.ok THEN Ok(resp.status, Some(p.json)) ELSE Err(JsonError)
    ELSE Err(EsServerError(resp))

(***************************************************************************)
(* do_req: classify a response.                                            *)
(***************************************************************************)
do_req(resp) ==
    IF resp.status \in {StatusOk, StatusCreated, StatusNotFound}
    THEN LET p == from_reader(resp.body)
         IN  IF p.ok THEN Ok(resp.status, Some(p.json)) ELSE Err(JsonError)
    ELSE Err(EsServerError(resp))

(***************************************************************************)
(* Client::new and Client::full_url.                                       *)
(***************************************************************************)
new(host, port) ==
    [base_url |-> <<"http", ":", "/", "/">> \o host \o <<":">> \o ToDigits(port)]

\* A faulty variant of full_url: no "/" between the base URL and the suffix.
full_url_concat(c, suffix) == c.base_url \o suffix

full_url(c, suffix) == c.base_url \o <<"/">> \o suffix

(***************************************************************************)
(* json::encode of a request body.  A TestDocument encodes its fields in   *)
(* declaration order; a value whose Encodable impl fails (a map with a     *)
(* non-string key) gives an EncoderError.                                  *)
(***************************************************************************)
TestDocument(str, int) == [kind |-> "TestDocument", str_field |-> str, int_field |-> int]
BadDocument == [kind |-> "BadHashmapKey", str_field |-> "", int_field |-> ""]

encode(doc) ==
    IF doc.kind = "TestDocument"
    THEN [ok |-> TRUE,
          text |-> <<LB, S("str_field"), COLON, S(doc.str_field), COMMA,
                     S("int_field"), COLON, N(doc.int_field), RB>>]
    ELSE [ok |-> FALSE, text |-> <<>>]

(***************************************************************************)
(* The HTTP helpers.  net is what the transport does with the request:     *)
(* it fails (net.ok = FALSE) or delivers the response net.resp.  sent is   *)
(* the sequence of requests handed to the transport by the call.           *)
(***************************************************************************)
Request(method, url, body) == [method |-> method, url |-> url, body |-> body]

es_op(c, method, url, net) ==
    LET full == full_url(c, url)
    IN  [sent |-> <<Request(method, full, None)>>,
         result |-> IF net.ok THEN do_req(net.resp) ELSE Err(HttpError)]

\* A faulty variant of es_body_op: the request is sent whether or not the
\* body serialized.
es_body_op_send_first(c, method, url, body, net) ==
    LET json_string == encode(body)
        full == full_url(c, url)
    IN  [sent |-> <<Request(method, full, Some(json_string.text))>>,
         result |-> IF ~json_string.ok THEN Err(EncoderError)
                    ELSE IF net.ok THEN do_req(net.resp) ELSE Err(HttpError)]

es_body_op(c, method, url, body, net) ==
    LET json_string == encode(body)
        full == full_url(c, url)
    IN  IF ~json_string.ok
        THEN [sent |-> <<>>, result |-> Err(EncoderError)]
        ELSE [sent |-> <<Request(method, full, Some(json_string.text))>>,
              result |-> IF net.ok THEN do_req(net.resp) ELSE Err(HttpError)]

get_op(c, url, net) == es_op(c, "GET", url, net)
post_op(c, url, net) == es_op(c, "POST", url, net)
post_body_op(c, url, body, net) == es_body_op(c, "POST", url, body, net)
put_op(c, url, net) == es_op(c, "PUT", url, net)
put_body_op(c, url, body, net) == es_body_op(c, "PUT", url, body, net)
delete_op(c, url, net) == es_op(c, "DELETE", url, net)
delete_body_op(c, url, body, net) == es_body_op(c, "DELETE", url, body, net)

(***************************************************************************)
(* Client::version.  panicked is the expect("No Json payload") abort.      *)
(***************************************************************************)
VOk(str) == [ok |-> TRUE, value |-> str, err |-> NoError, panicked |-> FALSE]
VErr(e) == [ok |-> FALSE, value |-> "", err |-> e, panicked |-> FALSE]
VPanic == [ok |-> FALSE, value |-> "", err |-> NoError, panicked |-> TRUE]

\* A faulty variant of version: the value at version.number is returned
\* whatever its JSON type.
version_lossy(c, net) ==
    LET r == get_op(c, <<"/">>, net)
        result == r.result.json
    IN  [sent |-> r.sent,
         call |-> r.result,
         out |->
            IF ~r.result.ok THEN VErr(r.result.err)
            ELSE IF result = None THEN VPanic
            ELSE LET json == The(result)
                     ver == find_path(json, <<"version", "number">>)
                 IN  IF ver = None
                     THEN VErr(EsError("Cannot find version number in ", json))
                     ELSE VOk(The(ver).s)]

version(c, net) ==
    LET r == get_op(c, <<"/">>, net)
        result == r.result.json
    IN  [sent |-> r.sent,
         call |-> r.result,
         out |->
            IF ~r.result.ok THEN VErr(r.result.err)
            ELSE IF result = None THEN VPanic
            ELSE LET json == The(result)
                     ver == find_path(json, <<"version", "number">>)
                 IN  IF ver = None
                     THEN VErr(EsError("Cannot find version number in ", json))
                     ELSE IF as_string(The(ver)) = None
                          THEN VErr(EsError("Cannot find version number in: ", json))
                          ELSE VOk(The(as_string(The(ver))))]

(***************************************************************************)
(* State.                                                                  *)
(***************************************************************************)
VARIABLES
    conf,       \* the host and port given to Client::new
    client,     \* the Client
    last,       \* the call of an HTTP helper or of version() made in SpecCall
    borrow,     \* the caller holding the &mut borrow of the Client (0: nobody)
    thr,        \* each caller's position and the operation builder it holds
    flight,     \* HTTP requests sent and not yet answered
    store,      \* the ids of the documents the engine holds
    hist,       \* the outcomes of the operations sent so far, in order
    bulk_actions, \* the caller's vector of bulk Actions
    bulk_op,    \* the BulkOperation under construction
    bulk_body   \* the bulk request body, a sequence of lines

vars == <<conf, client, last, borrow, thr, flight, store, hist,
          bulk_actions, bulk_op, bulk_body>>

(***************************************************************************)
(* Inputs.                                                                 *)
(***************************************************************************)
Hosts == {<<"localhost">>, <<"es", ".", "example">>}
Ports == {9200, 80}
Suffixes == {<<"/">>, <<>>, <<"idx", "/", "typ", "/", "1">>, <<"_bulk">>}
Statuses == {StatusOk, StatusCreated, 204, 400, StatusNotFound, 500}
Documents == {TestDocument("I am a test", "1"), BadDocument}

VersionBody(number) == <<LB, S("version"), COLON, LB, S("number"), COLON, number, RB, RB>>
FoundBody(found) == <<LB, S("found"), COLON, B(found), RB>>
CreatedBody(created) == <<LB, S("created"), COLON, B(created), RB>>

Bodies ==
    { <<>>,
      VersionBody(S("1.7.0")),
      VersionBody(N("1")),
      VersionBody(NUL),
      <<LB, S("version"), COLON, S("1.7.0"), RB>>,
      <<LB, S("version"), COLON, LB, RB, COMMA, S("name"), COLON, S("n"), RB>>,
      <<LB, S("number"), COLON, S("1.7.0"), RB>>,
      <<LB, RB>>,
      <<LK, S("version"), COMMA, S("number"), RK>>,
      <<S("1.7.0")>>,
      FoundBody("false"),
      <<HTML>>,
      <<LB, S("version"), COLON>>,
      <<LB, RB, RB>> }

NoResp == [status |-> 0, body |-> <<>>]
Down == [ok |-> FALSE, resp |-> NoResp]
Delivered(resp) == [ok |-> TRUE, resp |-> resp]
Responses == [status : Statuses, body : Bodies]
Nets == {Down} \cup {Delivered(r) : r \in Responses}

NoVersion == [ok |-> FALSE, value |-> "", err |-> NoError, panicked |-> FALSE]
NoCall == [fn |-> "none", url |-> <<>>, body |-> None, sent |-> <<>>, net |-> Down,
           call |-> Err(NoError), ver |-> NoVersion]

Completed(fn, url, body, r, net) ==
    [fn |-> fn, url |-> url, body |-> body, sent |-> r.sent,
     net |-> IF r.sent = <<>> THEN Down ELSE net,
     call |-> r.result, ver |-> NoVersion]

(***************************************************************************)
(* SpecCall: one Client and one call of a helper or of version(), with     *)
(* every path, body and transport outcome of the input sets.  The helpers  *)
(* read nothing but base_url, which no call changes, so one call from each *)
(* Client covers every call.                                               *)
(***************************************************************************)
Idle == [pc |-> "idle", kind |-> "none", state |-> "None", id |-> 0,
         opt |-> FALSE, doc |-> BadDocument]
NoBulk == [state |-> "None", actions |-> <<>>, index |-> None, doc_type |-> None]

OnlyCalls ==
    /\ borrow = 0
    /\ thr = <<>>
    /\ flight = {}
    /\ store = {}
    /\ hist = <<>>
    /\ bulk_actions = <<>>
    /\ bulk_op = NoBulk
    /\ bulk_body = <<>>

InitCall ==
    /\ conf \in [host : Hosts, port : Ports]
    /\ client = new(conf.host, conf.port)
    /\ last = NoCall
    /\ OnlyCalls

Rest == <<conf, client, borrow, thr, flight, store, hist, bulk_actions, bulk_op, bulk_body>>

GetOp ==
    \E url \in Suffixes, net \in Nets :
        /\ last = NoCall
        /\ last' = Completed("get_op", url, None, get_op(client, url, net), net)
        /\ UNCHANGED Rest

PostOp ==
    \E url \in Suffixes, net \in Nets :
        /\ last = NoCall
        /\ last' = Completed("post_op", url, None, post_op(client, url, net), net)
        /\ UNCHANGED Rest

PutOp ==
    \E url \in Suffixes, net \in Nets :
        /\ last = NoCall
        /\ last' = Completed("put_op", url, None, put_op(client, url, net), net)
        /\ UNCHANGED Rest

DeleteOp ==
    \E url \in Suffixes, net \in Nets :
        /\ last = NoCall
        /\ last' = Completed("delete_op", url, None, delete_op(client, url, net), net)
        /\ UNCHANGED Rest

PostBodyOp ==
    \E url \in Suffixes, body \in Documents, net \in Nets :
        /\ last = NoCall
        /\ last' = Completed("post_body_op", url, Some(body),
                             post_body_op(client, url, body, net), net)
        /\ UNCHANGED Rest

PutBodyOp ==
    \E url \in Suffixes, body \in Documents, net \in Nets :
        /\ last = NoCall
        /\ last' = Completed("put_body_op", url, Some(body),
                             put_body_op(client, url, body, net), net)
        /\ UNCHANGED Rest

DeleteBodyOp ==
    \E url \in Suffixes, body \in Documents, net \in Nets :
        /\ last = NoCall
        /\ last' = Completed("delete_body_op", url, Some(body),
                             delete_body_op(client, url, body, net), net)
        /\ UNCHANGED Rest

Version ==
    \E net \in Nets :
        /\ last = NoCall
        /\ LET r == version(client, net)
           IN  last' = [fn |-> "version", url |-> <<"/">>, body |-> None, sent |-> r.sent,
                        net |-> net, call |-> r.call, ver |-> r.out]
        /\ UNCHANGED Rest

NextCall ==
    \/ GetOp
    \/ PostOp
    \/ PutOp
    \/ DeleteOp
    \/ PostBodyOp
    \/ PutBodyOp
    \/ DeleteBodyOp
    \/ Version

SpecCall == InitCall /\ [][NextCall]_vars

(***************************************************************************)
(* The operation builders.  Client::index, Client::get and Client::delete  *)
(* take the Client by &'a mut self and return a builder that keeps the     *)
(* borrow, so a builder can be constructed only while nobody else holds    *)
(* the Client.                                                             *)
(***************************************************************************)
Callers == {1, 2}
Ids == {1, 2}

\* A faulty variant of borrow_mut: the Client is taken by a shared borrow.
borrow_mut_shared(holder) == TRUE

borrow_mut(holder) == holder = 0

index(t) ==
    [pc |-> "holding", kind |-> "index", state |-> "Constructed", id |-> 0,
     opt |-> FALSE, doc |-> BadDocument]

get(t, id) ==
    [pc |-> "holding", kind |-> "get", state |-> "Constructed", id |-> id,
     opt |-> FALSE, doc |-> BadDocument]

delete(t, id) ==
    [pc |-> "holding", kind |-> "delete", state |-> "Constructed", id |-> id,
     opt |-> FALSE, doc |-> BadDocument]

(***************************************************************************)
(* The builders' setters and send(), and the decoding of the results, are  *)
(* in the operations module.  A setter is valid before send() only; send() *)
(* makes the builder Sent.  Index is a PUT with an id and a POST without.  *)
(***************************************************************************)
\* A faulty variant of Configurable: a builder stays usable after send().
ConfigurableAlways(b) == b.pc = "holding"

Configurable(b) == b.pc = "holding" /\ b.state \in {"Constructed", "Configured"}

with_id(b, id) == [b EXCEPT !.state = "Configured", !.id = id]
with_doc(b, doc) == [b EXCEPT !.state = "Configured", !.opt = TRUE, !.doc = doc]
with_doc_type(b) == [b EXCEPT !.state = "Configured", !.opt = TRUE]

OperationPath(b) ==
    CASE b.kind = "index" /\ b.id = 0 -> <<"idx", "/", "typ">>
      [] b.kind = "index" /\ b.id # 0 -> <<"idx", "/", "typ", "/">> \o ToDigits(b.id)
      [] b.kind = "get" /\ b.opt -> <<"idx", "/", "typ", "/">> \o ToDigits(b.id)
      [] b.kind = "get" /\ ~b.opt -> <<"idx", "/", "_all", "/">> \o ToDigits(b.id)
      [] b.kind = "delete" -> <<"idx", "/", "typ", "/">> \o ToDigits(b.id)
      [] OTHER -> <<"/">>

send(c, b, net) ==
    CASE b.kind = "index" /\ b.id = 0 /\ b.opt -> post_body_op(c, OperationPath(b), b.doc, net)
      [] b.kind = "index" /\ b.id = 0 /\ ~b.opt -> post_op(c, OperationPath(b), net)
      [] b.kind = "index" /\ b.id # 0 /\ b.opt -> put_body_op(c, OperationPath(b), b.doc, net)
      [] b.kind = "index" /\ b.id # 0 /\ ~b.opt -> put_op(c, OperationPath(b), net)
      [] b.kind = "get" -> get_op(c, OperationPath(b), net)
      [] b.kind = "delete" -> delete_op(c, OperationPath(b), net)

Sent(b) == [b EXCEPT !.state = "Sent"]

Flag(r, key) == IF r.json = None THEN None ELSE find(The(r.json), key)

Decode(b, r) ==
    IF ~r.ok THEN [out |-> "error", err |-> r.err.kind]
    ELSE IF b.kind = "index"
         THEN CASE Flag(r, "created") = Some(JBool("true")) ->
                        [out |-> "created", err |-> ""]
                [] Flag(r, "created") = Some(JBool("false")) ->
                        [out |-> "updated", err |-> ""]
                [] OTHER -> [out |-> "error", err |-> "EsError"]
         ELSE CASE Flag(r, "found") = Some(JBool("true")) ->
                        [out |-> "found", err |-> ""]
                [] Flag(r, "found") = Some(JBool("false")) ->
                        [out |-> "notfound", err |-> ""]
                [] OTHER -> [out |-> "error", err |-> "EsError"]

(***************************************************************************)
(* The engine: what it answers to a request and what it then holds.        *)
(***************************************************************************)
Engine(docs, b) ==
    CASE b.kind = "version" ->
            {[store |-> docs,
              resp |-> [status |-> 200, body |-> VersionBody(S("1.7.0"))]]}
      [] b.kind = "get" ->
            {[store |-> docs,
              resp |-> IF b.id \in docs
                       THEN [status |-> 200, body |-> FoundBody("true")]
                       ELSE [status |-> 404, body |-> FoundBody("false")]]}
      [] b.kind = "delete" ->
            {[store |-> docs \ {b.id},
              resp |-> IF b.id \in docs
                       THEN [status |-> 200, body |-> FoundBody("true")]
                       ELSE [status |-> 404, body |-> FoundBody("false")]]}
      [] b.kind = "index" /\ b.id # 0 ->
            {[store |-> docs \cup {b.id},
              resp |-> IF b.id \in docs
                       THEN [status |-> 200, body |-> CreatedBody("false")]
                       ELSE [status |-> 201, body |-> CreatedBody("true")]]}
      [] b.kind = "index" /\ b.id = 0 ->
            {[store |-> docs \cup assigned,
              resp |-> [status |-> 201, body |-> CreatedBody("true")]] :
                assigned \in IF Ids \subseteq docs THEN {{}} ELSE {{i} : i \in Ids \ docs}}

(***************************************************************************)
(* Spec: two callers sharing one Client and one engine.  A call blocks its *)
(* caller from the request to the answer.                                  *)
(***************************************************************************)
Init ==
    /\ conf \in [host : {<<"localhost">>}, port : {9200}]
    /\ client = new(conf.host, conf.port)
    /\ last = NoCall
    /\ borrow = 0
    /\ thr = [t \in Callers |-> Idle]
    /\ flight = {}
    /\ store = {1}
    /\ hist = <<>>
    /\ bulk_actions = <<>>
    /\ bulk_op = NoBulk
    /\ bulk_body = <<>>

Budget == Len(hist) + Cardinality(flight) < MaxCalls

Outcome(b, d) == [kind |-> b.kind, id |-> b.id, out |-> d.out, err |-> d.err]

Fixed == <<conf, client, last, bulk_actions, bulk_op, bulk_body>>

ClientIndex(t) ==
    /\ thr[t].pc = "idle"
    /\ borrow_mut(borrow)
    /\ borrow' = t
    /\ thr' = [thr EXCEPT ![t] = index(t)]
    /\ UNCHANGED <<flight, store, hist>>
    /\ UNCHANGED Fixed

ClientGet(t) ==
    \E id \in Ids :
        /\ thr[t].pc = "idle"
        /\ borrow_mut(borrow)
        /\ borrow' = t
        /\ thr' = [thr EXCEPT ![t] = get(t, id)]
        /\ UNCHANGED <<flight, store, hist>>
        /\ UNCHANGED Fixed

ClientDelete(t) ==
    \E id \in Ids :
        /\ thr[t].pc = "idle"
        /\ borrow_mut(borrow)
        /\ borrow' = t
        /\ thr' = [thr EXCEPT ![t] = delete(t, id)]
        /\ UNCHANGED <<flight, store, hist>>
        /\ UNCHANGED Fixed

ClientVersion(t) ==
    /\ thr[t].pc = "idle"
    /\ borrow_mut(borrow)
    /\ Budget
    /\ borrow' = t
    /\ thr' = [thr EXCEPT ![t] = [Idle EXCEPT !.pc = "waiting", !.kind = "version"]]
    /\ flight' = flight \cup {[caller |-> t, req |-> version(client, Down).sent[1]]}
    /\ UNCHANGED <<store, hist>>
    /\ UNCHANGED Fixed

WithId(t) ==
    \E id \in Ids :
        /\ Configurable(thr[t])
        /\ thr[t].kind = "index"
        /\ thr' = [thr EXCEPT ![t] = with_id(@, id)]
        /\ UNCHANGED <<borrow, flight, store, hist>>
        /\ UNCHANGED Fixed

WithDoc(t) ==
    \E doc \in Documents :
        /\ Configurable(thr[t])
        /\ thr[t].kind = "index"
        /\ thr' = [thr EXCEPT ![t] = with_doc(@, doc)]
        /\ UNCHANGED <<borrow, flight, store, hist>>
        /\ UNCHANGED Fixed

WithDocType(t) ==
    /\ Configurable(thr[t])
    /\ thr[t].kind = "get"
    /\ thr' = [thr EXCEPT ![t] = with_doc_type(@)]
    /\ UNCHANGED <<borrow, flight, store, hist>>
    /\ UNCHANGED Fixed

Send(t) ==
    /\ Configurable(thr[t])
    /\ Budget
    /\ LET r == send(client, thr[t], Down)
       IN  IF r.sent = <<>>
           THEN /\ thr' = [thr EXCEPT ![t] = Sent(@)]
                /\ hist' = Append(hist, Outcome(thr[t], Decode(thr[t], r.result)))
                /\ UNCHANGED flight
           ELSE /\ thr' = [thr EXCEPT ![t] = [Sent(@) EXCEPT !.pc = "waiting"]]
                /\ flight' = flight \cup {[caller |-> t, req |-> r.sent[1]]}
                /\ UNCHANGED hist
    /\ UNCHANGED <<borrow, store>>
    /\ UNCHANGED Fixed

Answer(t, net, docs) ==
    LET b == thr[t]
        v == version(client, net).out
    IN  /\ flight' = {f \in flight : f.caller # t}
        /\ store' = docs
        /\ IF b.kind = "version"
           THEN /\ hist' = Append(hist, Outcome(b,
                                [out |-> IF v.ok THEN "ok" ELSE "error",
                                 err |-> v.err.kind]))
                /\ thr' = [thr EXCEPT ![t] = Idle]
                /\ borrow' = 0
           ELSE /\ hist' = Append(hist, Outcome(b, Decode(b, send(client, b, net).result)))
                /\ thr' = [thr EXCEPT ![t].pc = "holding"]
                /\ UNCHANGED borrow
        /\ UNCHANGED Fixed

Respond(t) ==
    /\ thr[t].pc = "waiting"
    /\ \E e \in Engine(store, thr[t]) : Answer(t, Delivered(e.resp), e.store)

TransportFailure(t) ==
    /\ thr[t].pc = "waiting"
    /\ Answer(t, Down, store)

Drop(t) ==
    /\ thr[t].pc = "holding"
    /\ thr' = [thr EXCEPT ![t] = Idle]
    /\ borrow' = 0
    /\ UNCHANGED <<flight, store, hist>>
    /\ UNCHANGED Fixed

Next ==
    \E t \in Callers :
        \/ ClientIndex(t)
        \/ ClientGet(t)
        \/ ClientDelete(t)
        \/ ClientVersion(t)
        \/ WithId(t)
        \/ WithDoc(t)
        \/ WithDocType(t)
        \/ Send(t)
        \/ Respond(t)
        \/ TransportFailure(t)
        \/ Drop(t)

Spec == Init /\ [][Next]_vars

(***************************************************************************)
(* Bulk.  Client::bulk hands the caller's Actions to the BulkOperation as  *)
(* they are.  The operation's setters and the encoding of its body are in  *)
(* the operations module: every Action gives a metadata line, naming its   *)
(* kind and target, and every Action but a Delete a source line after it;  *)
(* NL ends a line.                                                         *)
(***************************************************************************)
NL == [k |-> "nl", v |-> ""]

Action(kind, id, doc) == [kind |-> kind, id |-> id, doc |-> doc]
BulkDocument(i) == TestDocument("bulk_doc", i)

\* A faulty variant of bulk: the Actions are handed over in reverse order.
bulk_reversed(actions) ==
    [state |-> "Constructed",
     actions |-> [i \in 1 .. Len(actions) |-> actions[Len(actions) + 1 - i]],
     index |-> None, doc_type |-> None]

bulk(actions) ==
    [state |-> "Constructed", actions |-> actions, index |-> None, doc_type |-> None]

with_index(op, name) == [op EXCEPT !.state = "Configured", !.index = Some(name)]
with_bulk_doc_type(op, name) == [op EXCEPT !.state = "Configured", !.doc_type = Some(name)]

RECURSIVE Members(_)
Members(pairs) ==
    IF pairs = <<>> THEN <<>>
    ELSE <<S(pairs[1][1]), COLON, S(pairs[1][2])>>
            \o (IF Len(pairs) = 1 THEN <<>> ELSE <<COMMA>>)
            \o Members(Tail(pairs))

Target(op, a) ==
    (IF op.index = None THEN <<>> ELSE <<<<"_index", The(op.index)>>>>)
        \o (IF op.doc_type = None THEN <<>> ELSE <<<<"_type", The(op.doc_type)>>>>)
        \o (IF a.id = None THEN <<>> ELSE <<<<"_id", The(a.id)>>>>)

MetadataLine(op, a) ==
    <<LB, S(a.kind), COLON, LB>> \o Members(Target(op, a)) \o <<RB, RB, NL>>

SourceLine(a) ==
    IF a.kind = "delete" THEN <<>> ELSE encode(a.doc).text \o <<NL>>

RECURSIVE BulkLines(_, _)
BulkLines(op, actions) ==
    IF actions = <<>> THEN <<>>
    ELSE MetadataLine(op, Head(actions)) \o SourceLine(Head(actions))
            \o BulkLines(op, Tail(actions))

BulkBody(op) == BulkLines(op, op.actions)

(***************************************************************************)
(* SpecBulk: a caller builds a vector of Actions, makes a BulkOperation    *)
(* of it, sets its defaults and sends it.                                  *)
(***************************************************************************)
Actions ==
    { Action("index", None, BulkDocument("1")),
      Action("index", Some("7"), BulkDocument("2")),
      Action("create", Some("8"), BulkDocument("1")),
      Action("update", Some("7"), BulkDocument("2")),
      Action("delete", Some("7"), BadDocument),
      Action("delete", None, BadDocument) }

TestActions == [i \in 1 .. 9 |-> Action("index", None, BulkDocument(ToDigits(i)[1]))]

ActionVectors ==
    {TestActions} \cup UNION {[1 .. n -> Actions] : n \in 0 .. MaxActions}

InitBulk ==
    /\ conf \in [host : {<<"localhost">>}, port : {9200}]
    /\ client = new(conf.host, conf.port)
    /\ last = NoCall
    /\ borrow = 0
    /\ thr = <<>>
    /\ flight = {}
    /\ store = {}
    /\ hist = <<>>
    /\ bulk_actions \in ActionVectors
    /\ bulk_op = NoBulk
    /\ bulk_body = <<>>

NotBulk == <<conf, client, last, borrow, thr, flight, store, hist, bulk_actions>>

ClientBulk ==
    /\ bulk_op.state = "None"
    /\ bulk_op' = bulk(bulk_actions)
    /\ UNCHANGED bulk_body
    /\ UNCHANGED NotBulk

BulkWithIndex ==
    /\ bulk_op.state \in {"Constructed", "Configured"}
    /\ bulk_op' = with_index(bulk_op, "test_bulk")
    /\ UNCHANGED bulk_body
    /\ UNCHANGED NotBulk

BulkWithDocType ==
    /\ bulk_op.state \in {"Constructed", "Configured"}
    /\ bulk_op' = with_bulk_doc_type(bulk_op, "bulk_type")
    /\ UNCHANGED bulk_body
    /\ UNCHANGED NotBulk

BulkSend ==
    /\ bulk_op.state \in {"Constructed", "Configured"}
    /\ bulk_op' = [bulk_op EXCEPT !.state = "Sent"]
    /\ bulk_body' = BulkBody(bulk_op)
    /\ UNCHANGED NotBulk

NextBulk ==
    \/ ClientBulk
    \/ BulkWithIndex
    \/ BulkWithDocType
    \/ BulkSend

SpecBulk == InitBulk /\ [][NextBulk]_vars

(***************************************************************************)
(* Properties of one call (SpecCall).                                      *)
(***************************************************************************)
Called == last.fn # "none"
Answered == Called /\ last.sent # <<>> /\ last.net.ok
Parses(body) == from_reader(body).ok
Classified == {200, 201, 404}

Serializable(doc) == doc.kind = "TestDocument"

C2_OneRoundTrip ==
    Called =>
        LET unserializable == last.body # None /\ ~Serializable(The(last.body))
        IN  /\ Len(last.sent) <= 1
            /\ Len(last.sent) = 0 <=> unserializable
            /\ unserializable => ~last.call.ok /\ last.call.err.kind = "EncoderError"
            /\ Len(last.sent) = 1 =>
                    (last.sent[1].body = None <=> last.body = None)

C2_Witness ==
    /\ last.fn = "post_body_op"
    /\ Len(last.sent) = 1
    /\ ~last.net.ok
    /\ last.call.err.kind = "HttpError"

\* C7: version() sends one GET for the path "/" and returns Ok(s) exactly
\* when the call succeeded and the JSON has the string s at version.number;
\* otherwise an Error holding the JSON, or the call's own Error.
VersionNumbers(json) ==
    IF json.tag # "Object" THEN {}
    ELSE UNION { IF p[1] = "version" /\ p[2].tag = "Object"
                 THEN {q[2].s : q \in {x \in p[2].kv :
                                        x[1] = "number" /\ x[2].tag = "String"}}
                 ELSE {} : p \in json.kv }

C7_Version ==
    last.fn = "version" =>
        LET resp == last.net.resp
            succeeded == last.net.ok /\ resp.status \in Classified /\ Parses(resp.body)
            json == from_reader(resp.body).json
            v == last.ver
        IN  /\ Len(last.sent) = 1
            /\ last.sent[1].method = "GET"
            /\ last.sent[1].body = None
            /\ last.sent[1].url = client.base_url \o <<"/", "/">>
            /\ v.ok <=> succeeded /\ VersionNumbers(json) # {}
            /\ v.ok => VersionNumbers(json) = {v.value}
            /\ succeeded /\ VersionNumbers(json) = {} =>
                    v.err.kind = "EsError" /\ v.err.json = Some(json)
            /\ ~succeeded => v.err = last.call.err /\ v.err # NoError

C7_Witness ==
    /\ last.fn = "version"
    /\ last.net.ok
    /\ last.net.resp = [status |-> 200, body |-> VersionBody(N("1"))]
    /\ ~last.ver.ok
    /\ last.ver.err.json # None

\* C8 (as stated): on 200, 201 or 404 the parsed JSON is returned when there
\* is a body, and success with no JSON value when there is none.
C8_MissingBodyIsSuccess ==
    Answered /\ last.net.resp.status \in Classified =>
        LET resp == last.net.resp
            r == last.call
        IN  /\ resp.body # <<>> /\ Parses(resp.body) =>
                    r.ok /\ r.status = resp.status
                         /\ r.json = Some(from_reader(resp.body).json)
            /\ resp.body = <<>> => r.ok /\ r.status = resp.status /\ r.json = None

\* C9 (as stated): the URL requested is the base URL followed by the path
\* and nothing else; version() requests http://host:port/.
PortText(port) ==
    CASE port = 9200 -> <<"9", "2", "0", "0">>
      [] port = 80 -> <<"8", "0">>
BaseText == <<"http", ":", "/", "/">> \o conf.host \o <<":">> \o PortText(conf.port)

Newlines(body) == {i \in 1 .. Len(body) : body[i] = NL}

\* The k-th newline of body, and 0 for k = 0.
Newline(body, k) ==
    IF k = 0 THEN 0
    ELSE CHOOSE p \in Newlines(body) :
            Cardinality({q \in Newlines(body) : q < p}) = k - 1

SplitLines(body) ==
    [k \in 1 .. Cardinality(Newlines(body)) |->
        SubSeq(body, Newline(body, k - 1) + 1, Newline(body, k) - 1)]

Width(a) == IF a.kind = "delete" THEN 1 ELSE 2

RECURSIVE LinesBefore(_, _)
LinesBefore(acts, i) ==
    IF i <= 1 THEN 0 ELSE LinesBefore(acts, i - 1) + Width(acts[i - 1])

DocumentJson(doc) ==
    JObj({<<"str_field", JStr(doc.str_field)>>, <<"int_field", JNum(doc.int_field)>>})

Names(a, line) ==
    LET m == from_reader(line)
    IN  /\ m.ok
        /\ m.json.tag = "Object"
        /\ {p[1] : p \in m.json.kv} = {a.kind}
        /\ \A t \in find(m.json, a.kind) :
                find(t, "_id") = (IF a.id = None THEN None ELSE Some(JStr(The(a.id))))

\* C3: the bulk body holds, in submission order, one metadata line per
\* Action, followed at once by its source line unless the Action is a
\* Delete; every line ends with a newline; N Index/Create/Update Actions
\* give 2N lines (18 for the 9 of the test) and a Delete gives 1.
C3_BulkEncoding ==
    bulk_op.state = "Sent" =>
        LET acts == bulk_actions
            lines == SplitLines(bulk_body)
            n == Len(acts)
        IN  /\ bulk_body = <<>> \/ bulk_body[Len(bulk_body)] = NL
            /\ Len(lines) = LinesBefore(acts, n + 1)
            /\ \A i \in 1 .. n :
                    /\ Names(acts[i], lines[LinesBefore(acts, i) + 1])
                    /\ acts[i].kind # "delete" =>
                            LET src == from_reader(lines[LinesBefore(acts, i) + 2])
                            IN  src.ok /\ src.json = DocumentJson(acts[i].doc)
            /\ (\A i \in 1 .. n : acts[i].kind # "delete") => Len(lines) = 2 * n
            /\ acts = TestActions => Len(lines) = 18

C3_Witness ==
    /\ bulk_op.state = "Sent"
    /\ bulk_actions = TestActions
    /\ Len(SplitLines(bulk_body)) = 18

(***************************************************************************)
(* Properties of the callers sharing a Client (Spec).                      *)
(***************************************************************************)
Newest(h) == h[Len(h)]

Lifecycle ==
    {<<"None", "Constructed">>, <<"Constructed", "Configured">>,
     <<"Constructed", "Sent">>, <<"Configured", "Sent">>,
     <<"Constructed", "None">>, <<"Configured", "None">>, <<"Sent", "None">>}

C6_ExclusiveUse ==
    /\ Cardinality({t \in Callers : thr[t].pc # "idle"}) <= 1
    /\ Cardinality(flight) <= 1
    /\ \A t \in Callers : thr[t].pc # "idle" => borrow = t
    /\ \A f \in flight : thr[f.caller].pc = "waiting"

C6_Witness ==
    /\ thr[1].pc = "waiting"
    /\ thr[1].kind = "index"
    /\ thr[2].pc = "idle"
    /\ Len(hist) >= 1
    /\ ~ENABLED ClientGet(2)
====
